---- MODULE Spec2Model ----
(***************************************************************************)
(* Model of src/filter/medianFilter.go: the 5x5 median kernel              *)
(* (medianFilter), the band worker goroutine (worker) and the coordinator  *)
(* (filter) that splits the image into row bands, starts one goroutine per *)
(* band, receives each band's result over an unbuffered channel and copies *)
(* it into the output matrix.                                              *)
(*                                                                         *)
(* Go slices are 0-based; a matrix is modelled as a sequence of rows, so   *)
(* matrix[y][x] of the source is matrix[y+1][x+1] here.  The getter        *)
(* closure returned by makeImmutableMatrix is a function on 0-based        *)
(* coordinate pairs.                                                       *)
(***************************************************************************)
EXTENDS Integers, Sequences, FiniteSets

\* ---------------------------------------------------------------- bounds
MaxH == 10
MaxW == 10
MaxThreads == 3
MaxPattern == 1
MaxOrigin == 1

\* Constant sample values of the flat input images.
ConstVals == {0, 100, 255}

VARIABLES
    img,            \* the decoded image: bounds.Min and its gray samples
    height,         \* bounds.Dy()
    width,          \* bounds.Dx()
    immutableData,  \* getter closure over the luminance matrix
    threads,        \* the -threads flag
    pc,             \* position of the coordinator (filter)
    t,              \* loop index of the coordinator's current loop
    partitionSize,  \* height / threads
    wpc,            \* position of each worker goroutine
    band,           \* <<startY, endY>> each worker was started with
    filteredData,   \* each worker's local result of medianFilter
    partialResult,  \* the value the coordinator received last
    newPixelData,   \* the output matrix (<<>> while nil)
    rowWrites,      \* how often the coordinator wrote each output row
    kernelCalls,    \* the regions medianFilter was invoked on
    firstCall       \* the region of the first invocation (<<>> before it)

vars == <<img, height, width, immutableData, threads, pc, t, partitionSize, wpc,
          band, filteredData, partialResult, newPixelData, rowWrites,
          kernelCalls, firstCall>>

Workers == 0..(MaxThreads - 1)

\* ------------------------------------------------------------ input images
\* Sample (y, x) of input image <<c, p>>: p = 0 is the flat image of value c.
Pixel(c, p, y, x) == (c + p * (37 * y + 101 * x + 59 * x * y + 83 * y * y)) % 256

Inputs == {<<c, 0>> : c \in ConstVals} \cup {<<100, p>> : p \in 1..MaxPattern}

PixelData(c, p, h, w) == [i \in 1..h |-> [j \in 1..w |-> Pixel(c, p, i - 1, j - 1)]]

\* The images getPixelData is given: gray images whose bounds start at
\* min = <<Min.X, Min.Y>>.  The PNG and JPEG decoders behind loadImage return
\* bounds that start at (0, 0); getPixelData itself takes any image.Image.
Abs(d) == IF d < 0 THEN -d ELSE d

Origins ==
    {m \in ((-MaxOrigin)..MaxOrigin) \X ((-MaxOrigin)..MaxOrigin) :
        Abs(m[1]) + Abs(m[2]) <= MaxOrigin}

Images == [min : Origins, in : Inputs]

\* ------------------------------------------------------------ pure helpers
radius == 2

midPoint == (5 * 5 + 1) \div 2

makeMatrix(h, w) == [i \in 1..h |-> [j \in 1..w |-> 0]]

makeImmutableMatrix(matrix) ==
    [y \in 0..(Len(matrix) - 1), x \in 0..(Len(matrix[1]) - 1) |-> matrix[y + 1][x + 1]]

\* Mutant of ToInt: the sample is widened as a signed 8-bit value.
ToIntSigned(v) == IF v >= 128 THEN v - 256 ELSE v

\* int(v) of a uint8 keeps the value; uint8(v) of an int keeps the low 8 bits.
ToInt(v) == v

\* Mutant of ToUint8: narrowing to a signed 8-bit sample range.
ToInt7(v) == v % 128

ToUint8(v) == v % 256

\* color.Gray{v}.RGBA(): each channel is v widened to 16 bits (v | v<<8).
RGBA(v) == <<v * 257, v * 257, v * 257>>

\* uint8(lum / 256) for lum = 0.299 r + 0.587 g + 0.114 b: the float is at
\* most 255.99 for 16-bit channels and the conversion truncates it.
LumDiv256(rgb) == (299 * rgb[1] + 587 * rgb[2] + 114 * rgb[3]) \div 256000

\* getPixelData indexes pixels[y][x] with the image's absolute coordinates:
\* an index outside the Dy x Dx matrix panics.
getPixelDataPanics(im, h, w) ==
    \E y \in im.min[2]..(im.min[2] + h - 1), x \in im.min[1]..(im.min[1] + w - 1) :
        y < 0 \/ y >= h \/ x < 0 \/ x >= w

\* The matrix getPixelData returns when no write panics; img.At(x, y) is the
\* sample of the h x w content at (y - Min.Y, x - Min.X).
getPixelData(im, h, w) ==
    LET content == PixelData(im.in[1], im.in[2], h, w)
        pixels == makeMatrix(h, w)
    IN  [i \in 1..h |-> [j \in 1..w |->
            LET y == i - 1
                x == j - 1
            IN  IF /\ im.min[2] <= y /\ y < im.min[2] + h
                   /\ im.min[1] <= x /\ x < im.min[1] + w
                THEN LumDiv256(RGBA(content[y - im.min[2] + 1][x - im.min[1] + 1]))
                ELSE pixels[i][j]]]

\* Go's integer division truncates toward zero.
GoDiv(a, b) ==
    IF b > 0 THEN (IF a >= 0 THEN a \div b ELSE -((-a) \div b))
    ELSE (IF a >= 0 THEN -(a \div (-b)) ELSE (-a) \div (-b))

\* sort.Ints: the ascending arrangement of s.
SortInts(s) ==
    [n \in 1..Len(s) |->
        CHOOSE v \in {s[i] : i \in 1..Len(s)} :
            /\ Cardinality({i \in 1..Len(s) : s[i] < v}) < n
            /\ n <= Cardinality({i \in 1..Len(s) : s[i] <= v})]

\* Mutant of WindowCoords: the window rows start one row too high
\* (k := i - radius - 1).
WindowCoordsShifted(i, j) ==
    [n \in 1..(5 * 5) |->
        <<i - radius - 1 + ((n - 1) \div 5), j - radius + ((n - 1) % 5)>>]

\* The coordinates (k, l) the two inner loops pass to data at window centre
\* (i, j), in loop order: element count = (k - (i-radius)) * 5 + (l - (j-radius)).
WindowCoords(i, j) ==
    [n \in 1..(5 * 5) |->
        <<i - radius + ((n - 1) \div 5), j - radius + ((n - 1) % 5)>>]

\* filterValues after the two inner loops at window centre (i, j): element
\* count holds int(data(k, l)).
WindowValues(i, j, data) ==
    [n \in 1..(5 * 5) |-> ToInt(data[WindowCoords(i, j)[n]])]

\* Every coordinate a call medianFilter(startY, endY, startX, endX, data)
\* passes to data.
KernelReads(startY, endY, startX, endX) ==
    UNION {{WindowCoords(i, j)[n] : n \in 1..(5 * 5)} :
              i \in (radius + startY)..(endY - radius - 1),
              j \in (radius + startX)..(endX - radius - 1)}

\* Kernel variants used as mutants of medianFilter.  Clamp keeps a window
\* coordinate inside [lo, hi).
Clamp(v, lo, hi) == IF v < lo THEN lo ELSE IF v >= hi THEN hi - 1 ELSE v

\* A kernel that leaves top rows, bottom rows and side columns unfiltered
\* and replicates the region's edge samples into the window.
ReplicatingKernel(startY, endY, startX, endX, data, top, bottom, side) ==
    [a \in 1..(endY - startY) |-> [b \in 1..(endX - startX) |->
        LET i == startY + a - 1
            j == startX + b - 1
        IN  IF /\ top + startY <= i /\ i < endY - bottom
               /\ side + startX <= j /\ j < endX - side
            THEN ToUint8(SortInts(
                     [n \in 1..(5 * 5) |->
                         data[Clamp(i - radius + ((n - 1) \div 5), startY, endY),
                              Clamp(j - radius + ((n - 1) % 5), startX, endX)]])[midPoint + 1])
            ELSE 0]]

\* Mutant: the row loop runs one row too far (i <= endY-radius).
medianFilterRowTooFar(startY, endY, startX, endX, data) ==
    ReplicatingKernel(startY, endY, startX, endX, data, radius, radius - 1, radius)

\* Mutant: no unfiltered columns at the left and right of the region.
medianFilterNoColBorder(startY, endY, startX, endX, data) ==
    ReplicatingKernel(startY, endY, startX, endX, data, radius, radius, 0)

\* Mutant: the window is read at region-local instead of global rows.
medianFilterLocalRows(startY, endY, startX, endX, data) ==
    [a \in 1..(endY - startY) |-> [b \in 1..(endX - startX) |->
        LET i == startY + a - 1
            j == startX + b - 1
        IN  IF /\ radius + startY <= i /\ i < endY - radius
               /\ radius + startX <= j /\ j < endX - radius
            THEN ToUint8(SortInts(WindowValues(i - startY, j, data))[midPoint + 1])
            ELSE 0]]

medianFilter(startY, endY, startX, endX, data) ==
    LET h == endY - startY
        w == endX - startX
        filteredMatrix == makeMatrix(h, w)
    IN  [a \in 1..h |-> [b \in 1..w |->
            LET i == startY + a - 1
                j == startX + b - 1
            IN  IF /\ radius + startY <= i /\ i < endY - radius
                   /\ radius + startX <= j /\ j < endX - radius
                THEN ToUint8(SortInts(WindowValues(i, j, data))[midPoint + 1])
                ELSE filteredMatrix[a][b]]]

\* ------------------------------------------------------------------- Init
Init ==
    /\ height \in 1..MaxH
    /\ width \in 1..MaxW
    /\ img \in Images
    /\ immutableData = <<>>
    /\ threads \in (-1)..MaxThreads
    /\ pc = "load"
    /\ t = 0
    /\ partitionSize = 0
    /\ wpc = [i \in Workers |-> "none"]
    /\ band = [i \in Workers |-> <<0, 0>>]
    /\ filteredData = [i \in Workers |-> <<>>]
    /\ partialResult = <<>>
    /\ newPixelData = <<>>
    /\ rowWrites = [r \in 0..(height - 1) |-> 0]
    /\ kernelCalls = {}
    /\ firstCall = <<>>

\* ---------------------------------------------------------------- actions
\* Mutant of MakeChansPanics: a negative length is taken as an empty slice.
MakeChansNeverPanics(n) == FALSE

\* make([]chan [][]uint8, threads) panics for a negative length.
MakeChansPanics(n) == n < 0

\* height / threads panics for a zero divisor.
DivisionPanics(n) == n = 0

\* The bounds the coordinator's second loop gives worker i.
BandStartY(i) == i * partitionSize

\* Mutant of BandEndY: the last band does not absorb the remainder.
BandEndYNoRemainder(i) == (i + 1) * partitionSize

BandEndY(i) == IF i = threads - 1 THEN height ELSE (i + 1) * partitionSize

\* immutableData := makeImmutableMatrix(getPixelData(img))
Load ==
    /\ pc = "load"
    /\ IF getPixelDataPanics(img, height, width)
       THEN /\ pc' = "panic"
            /\ UNCHANGED immutableData
       ELSE /\ immutableData' = makeImmutableMatrix(getPixelData(img, height, width))
            /\ pc' = "start"
    /\ UNCHANGED <<img, height, width, threads, t, partitionSize, wpc, band,
                   filteredData, partialResult, newPixelData, rowWrites,
                   kernelCalls, firstCall>>

\* Mutant of Start: no separate branch for threads == 1; one thread is one
\* band task like any other count.
StartAlwaysBanded ==
    /\ pc = "start"
    /\ IF MakeChansPanics(threads) \/ DivisionPanics(threads)
       THEN /\ pc' = "panic"
            /\ UNCHANGED partitionSize
       ELSE /\ partitionSize' = GoDiv(height, threads)
            /\ pc' = IF 0 < threads THEN "spawn" ELSE "alloc"
    /\ UNCHANGED <<img, height, width, immutableData, threads, t, wpc, band,
                   filteredData, partialResult, newPixelData, rowWrites,
                   kernelCalls, firstCall>>

\* filter, from the branch on threads to the end of the channel loop.  With
\* threads == 1 the kernel runs in the coordinator and filter is done.
Start ==
    /\ pc = "start"
    /\ IF threads = 1
       THEN /\ kernelCalls' = kernelCalls \cup {<<0, height, 0, width>>}
            /\ firstCall' = <<0, height, 0, width>>
            /\ IF KernelReads(0, height, 0, width) \subseteq DOMAIN immutableData
               THEN /\ newPixelData' = medianFilter(0, height, 0, width, immutableData)
                    /\ pc' = "done"
               ELSE /\ pc' = "panic"
                    /\ UNCHANGED newPixelData
            /\ UNCHANGED partitionSize
       ELSE IF MakeChansPanics(threads) \/ DivisionPanics(threads)
       THEN /\ pc' = "panic"
            /\ UNCHANGED <<newPixelData, kernelCalls, firstCall, partitionSize>>
       ELSE /\ partitionSize' = GoDiv(height, threads)
            /\ pc' = IF 0 < threads THEN "spawn" ELSE "alloc"
            /\ UNCHANGED <<newPixelData, kernelCalls, firstCall>>
    /\ UNCHANGED <<img, height, width, immutableData, threads, t, wpc, band,
                   filteredData, partialResult, rowWrites>>

\* One iteration of the loop that starts the goroutines.
Spawn ==
    /\ pc = "spawn"
    /\ t < threads
    /\ band' = [band EXCEPT ![t] = <<BandStartY(t), BandEndY(t)>>]
    /\ wpc' = [wpc EXCEPT ![t] = "run"]
    /\ t' = IF t + 1 < threads THEN t + 1 ELSE 0
    /\ pc' = IF t + 1 < threads THEN "spawn" ELSE "alloc"
    /\ UNCHANGED <<img, height, width, immutableData, threads, partitionSize,
                   filteredData, partialResult, newPixelData, rowWrites,
                   kernelCalls, firstCall>>

\* newPixelData = makeMatrix(height, width)
Alloc ==
    /\ pc = "alloc"
    /\ newPixelData' = makeMatrix(height, width)
    /\ t' = 0
    /\ pc' = IF 0 < threads THEN "recv" ELSE "done"
    /\ UNCHANGED <<img, height, width, immutableData, threads, partitionSize, wpc,
                   band, filteredData, partialResult, rowWrites, kernelCalls, firstCall>>

\* Mutant of WorkerCompute: the worker also stores its rows straight into
\* the shared output matrix when that is allocated.
WorkerComputeInPlace(i) ==
    /\ wpc[i] = "run"
    /\ pc # "panic"
    /\ kernelCalls' = kernelCalls \cup {<<band[i][1], band[i][2], 0, width>>}
    /\ firstCall' = IF firstCall = <<>>
                    THEN <<band[i][1], band[i][2], 0, width>>
                    ELSE firstCall
    /\ LET res == medianFilter(band[i][1], band[i][2], 0, width, immutableData)
       IN  /\ filteredData' = [filteredData EXCEPT ![i] = res]
           /\ newPixelData' =
                  IF newPixelData = <<>> THEN newPixelData
                  ELSE [a \in 1..height |->
                           IF band[i][1] <= a - 1 /\ a - 1 < band[i][2]
                           THEN res[a - band[i][1]]
                           ELSE newPixelData[a]]
    /\ wpc' = [wpc EXCEPT ![i] = "send"]
    /\ UNCHANGED <<img, height, width, immutableData, threads, pc, t,
                   partitionSize, band, partialResult, rowWrites>>

\* worker i runs medianFilter on its band and then blocks on its send; a
\* read outside the matrix panics and stops the program.
WorkerCompute(i) ==
    /\ wpc[i] = "run"
    /\ pc # "panic"
    /\ kernelCalls' = kernelCalls \cup {<<band[i][1], band[i][2], 0, width>>}
    /\ firstCall' = IF firstCall = <<>>
                    THEN <<band[i][1], band[i][2], 0, width>>
                    ELSE firstCall
    /\ IF KernelReads(band[i][1], band[i][2], 0, width) \subseteq DOMAIN immutableData
       THEN /\ filteredData' = [filteredData EXCEPT
                   ![i] = medianFilter(band[i][1], band[i][2], 0, width, immutableData)]
            /\ wpc' = [wpc EXCEPT ![i] = "send"]
            /\ UNCHANGED pc
       ELSE /\ pc' = "panic"
            /\ UNCHANGED <<filteredData, wpc>>
    /\ UNCHANGED <<img, height, width, immutableData, threads, t, partitionSize,
                   band, partialResult, newPixelData, rowWrites>>

\* Mutant of Recv: the coordinator takes band t's result from whichever
\* worker is ready to send (one channel shared by all workers).
RecvAny ==
    /\ pc = "recv"
    /\ \E i \in Workers :
          /\ wpc[i] = "send"
          /\ partialResult' = filteredData[i]
          /\ wpc' = [wpc EXCEPT ![i] = "done"]
    /\ pc' = "merge"
    /\ UNCHANGED <<img, height, width, immutableData, threads, t, partitionSize,
                   band, filteredData, newPixelData, rowWrites, kernelCalls, firstCall>>

\* Mutant of Recv: the coordinator reads worker t's result without waiting
\* for the worker to hand it over.
RecvNoWait ==
    /\ pc = "recv"
    /\ wpc[t] \in {"run", "send"}
    /\ partialResult' = filteredData[t]
    /\ wpc' = [wpc EXCEPT ![t] = IF wpc[t] = "send" THEN "done" ELSE wpc[t]]
    /\ pc' = "merge"
    /\ UNCHANGED <<img, height, width, immutableData, threads, t, partitionSize,
                   band, filteredData, newPixelData, rowWrites, kernelCalls, firstCall>>

\* Mutant of Recv: every iteration receives from resultChan[0].
RecvChannelZero ==
    /\ pc = "recv"
    /\ wpc[0] = "send"
    /\ partialResult' = filteredData[0]
    /\ wpc' = [wpc EXCEPT ![0] = "done"]
    /\ pc' = "merge"
    /\ UNCHANGED <<img, height, width, immutableData, threads, t, partitionSize,
                   band, filteredData, newPixelData, rowWrites, kernelCalls, firstCall>>

\* partialResult := <-resultChan[t] meets worker t's out <- filteredData: the
\* channel is unbuffered, so both sides take the step together.
Recv ==
    /\ pc = "recv"
    /\ wpc[t] = "send"
    /\ partialResult' = filteredData[t]
    /\ wpc' = [wpc EXCEPT ![t] = "done"]
    /\ pc' = "merge"
    /\ UNCHANGED <<img, height, width, immutableData, threads, t, partitionSize,
                   band, filteredData, newPixelData, rowWrites, kernelCalls, firstCall>>

\* Mutant of Merge: the row loop stops one row early
\* (i < startY+len(partialResult)-1).
MergeSkipsLastRow ==
    /\ pc = "merge"
    /\ LET startY == t * partitionSize
           rows == startY..(startY + Len(partialResult) - 2)
       IN  /\ newPixelData' =
                  [a \in 1..height |->
                      IF (a - 1) \in rows
                      THEN [b \in 1..width |-> partialResult[a - 1 - startY + 1][b]]
                      ELSE newPixelData[a]]
           /\ rowWrites' =
                  [r \in 0..(height - 1) |->
                      IF r \in rows THEN rowWrites[r] + 1 ELSE rowWrites[r]]
           /\ t' = t + 1
           /\ pc' = IF t + 1 < threads THEN "recv" ELSE "done"
    /\ UNCHANGED <<img, height, width, immutableData, threads, partitionSize, wpc,
                   band, filteredData, partialResult, kernelCalls, firstCall>>

\* The copy loops of the coordinator for band t; a row index past the
\* output matrix panics.
Merge ==
    /\ pc = "merge"
    /\ LET startY == t * partitionSize
           rows == startY..(startY + Len(partialResult) - 1)
       IN  IF \E i \in rows : i < 0 \/ i >= height
           THEN /\ pc' = "panic"
                /\ UNCHANGED <<t, newPixelData, rowWrites>>
           ELSE /\ newPixelData' =
                      [a \in 1..height |->
                          IF (a - 1) \in rows
                          THEN [b \in 1..width |-> partialResult[a - 1 - startY + 1][b]]
                          ELSE newPixelData[a]]
                /\ rowWrites' =
                      [r \in 0..(height - 1) |->
                          IF r \in rows THEN rowWrites[r] + 1 ELSE rowWrites[r]]
                /\ t' = t + 1
                /\ pc' = IF t + 1 < threads THEN "recv" ELSE "done"
    /\ UNCHANGED <<img, height, width, immutableData, threads, partitionSize, wpc,
                   band, filteredData, partialResult, kernelCalls, firstCall>>

Next ==
    \/ Load
    \/ Start
    \/ Spawn
    \/ Alloc
    \/ \E i \in Workers : WorkerCompute(i)
    \/ Recv
    \/ Merge

Spec == Init /\ [][Next]_vars

\* The steps of the coordinator goroutine (Recv is shared with a worker).
Coordinator == Load \/ Start \/ Spawn \/ Alloc \/ Recv \/ Merge

\* The runs of filter itself: loadImage's decoders return images whose
\* bounds start at (0, 0).  No step of filter or worker branches on a sample
\* value, so the scheduling of a run is the same for every content: the fair
\* specification takes the flat image of value 100 in every size.
DecodedInit == Init /\ img.min = <<0, 0>> /\ img.in = <<100, 0>>

\* The Go scheduler runs every goroutine that can take a step: the
\* coordinator and each started worker are weakly fair.
FairSpec ==
    /\ DecodedInit /\ [][Next]_vars
    /\ WF_vars(Coordinator)
    /\ \A i \in Workers : WF_vars(WorkerCompute(i))

\* ------------------------------------------------- vocabulary of the claims
\* The kernel invocations that have returned, as <<startY, endY, result>>
\* (startX = 0 and endX = width in every invocation).
Returned ==
    {<<band[i][1], band[i][2], filteredData[i]>> : i \in {j \in Workers : wpc[j] \in {"send", "done"}}}
    \cup (IF threads = 1 /\ pc = "done" THEN {<<0, height, newPixelData>>} ELSE {})

\* The 25 samples of the 5x5 window centred on (y, x), as a bag of positions.
WindowCells(y, x) == {<<k, l>> : k \in (y - 2)..(y + 2), l \in (x - 2)..(x + 2)}

\* The n-th smallest (n = 1 is the minimum) sample of the window at (y, x).
NthSmallest(n, y, x) ==
    CHOOSE v \in {immutableData[c] : c \in WindowCells(y, x)} :
        /\ Cardinality({c \in WindowCells(y, x) : immutableData[c] < v}) < n
        /\ Cardinality({c \in WindowCells(y, x) : immutableData[c] <= v}) >= n

\* The pixels of region [startY, endY) x [0, width) the kernel filters.
Interior(startY, endY) ==
    {<<y, x>> : y \in (startY + 2)..(endY - 3), x \in 2..(width - 3)}

\* C1 (as claimed): every filtered pixel of every returned kernel result is
\* the 13th smallest of its 25 window samples (index 12 of the sorted window).
C1_Median13th ==
    \A r \in Returned : \A c \in Interior(r[1], r[2]) :
        r[3][c[1] - r[1] + 1][c[2] + 1] = NthSmallest(13, c[1], c[2])

\* What the code returns instead: the 14th smallest (index 13).
C1_CodeTakes14th ==
    \A r \in Returned : \A c \in Interior(r[1], r[2]) :
        r[3][c[1] - r[1] + 1][c[2] + 1] = NthSmallest(14, c[1], c[2])

\* C2: for 1 <= threads <= height the row bands handed to the kernel
\* partition [0, height): band 0 starts at 0, each band ends where the next
\* starts, the last ends at height, no two overlap, the heights sum to height.
RECURSIVE SumHeights(_)
SumHeights(n) == IF n = 0 THEN 0 ELSE SumHeights(n - 1) + (band[n - 1][2] - band[n - 1][1])

Dispatched == pc \in {"alloc", "recv", "merge", "done"}

C2_BandsPartition ==
    (1 <= threads /\ threads <= height /\ Dispatched) =>
        IF threads = 1
        THEN kernelCalls = {<<0, height, 0, width>>}
        ELSE /\ band[0][1] = 0
             /\ \A i \in 0..(threads - 2) : band[i][2] = band[i + 1][1]
             /\ band[threads - 1][2] = height
             /\ \A i, j \in 0..(threads - 1) :
                    i # j => (band[i][1]..(band[i][2] - 1)) \cap (band[j][1]..(band[j][2] - 1)) = {}
             /\ \A r \in 0..(height - 1) :
                    \E i \in 0..(threads - 1) : band[i][1] <= r /\ r < band[i][2]
             /\ SumHeights(threads) = height

\* C2 witness: all bands dispatched, with a remainder for the last band.
C2_Witness ==
    /\ Dispatched /\ threads >= 2 /\ threads <= height
    /\ height % threads # 0
    /\ band[threads - 1][2] - band[threads - 1][1] > partitionSize

\* C3 (as claimed): with more threads than rows nothing is dispatched and no
\* output grid is produced.
C3_TooManyThreadsRejected ==
    threads > height =>
        /\ \A i \in Workers : wpc[i] = "none"
        /\ newPixelData = <<>>
        /\ kernelCalls = {}

\* C4: with threads <= 0 the run stops in a panic before anything is
\* dispatched: no worker, no kernel invocation, no output grid.
C4_NonPositiveThreadsPanic ==
    threads <= 0 =>
        /\ pc \in {"load", "start", "panic"}
        /\ \A i \in Workers : wpc[i] = "none"
        /\ kernelCalls = {}
        /\ newPixelData = <<>>

\* C4 witness: a run with a negative thread count has panicked.
C4_Witness == threads < 0 /\ pc = "panic" /\ immutableData # <<>>

\* ---------------------------------------------------------------- C5..C10
\* The coordinator holds or has merged the result of band i.
Taken(i) ==
    \/ pc = "done"
    \/ pc = "merge" /\ t >= i
    \/ pc = "recv" /\ t > i

\* Row r of the output has been written by the copy loop.
Written(r) == rowWrites[r] > 0

Seams == {k * (height \div threads) : k \in 1..(threads - 1)}

NearSeam(r) == \E s \in Seams : s - 2 <= r /\ r <= s + 1

\* C6: for 2 <= threads <= height every output pixel in the rows s-2 .. s+1
\* around every internal band boundary s is 0.
C6_SeamRowsZero ==
    (pc = "done" /\ 2 <= threads /\ threads <= height) =>
        \A r \in 0..(height - 1) :
            NearSeam(r) => \A x \in 1..width : newPixelData[r + 1][x] = 0

\* C6 witness: a finished banded run on nonzero input whose output has a
\* filtered (nonzero) pixel next to the zeroed seam rows.
C6_Witness ==
    /\ pc = "done" /\ 2 <= threads /\ threads <= height
    /\ \A c \in DOMAIN immutableData : immutableData[c] > 0
    /\ \E r \in 0..(height - 2) :
           /\ ~NearSeam(r) /\ NearSeam(r + 1)
           /\ \E x \in 1..width : newPixelData[r + 1][x] > 0

\* The output of the run with one thread on the same grid.
SingleThreadOutput == medianFilter(0, height, 0, width, immutableData)

\* The 10x10 grid of value 100 filtered with 2 threads.
IsScenario ==
    /\ height = 10 /\ width = 10 /\ threads = 2
    /\ \A c \in DOMAIN immutableData : immutableData[c] = 100

\* C7: for 2 <= threads <= height the output equals the single-thread
\* output in every row that is not one of the four rows around a seam; in
\* the 10x10 scenario rows 3..6 are 0, rows 2 and 7 are 100 in columns 2..7,
\* rows 0, 1, 8, 9 are 0.
C7_SameAwayFromSeams ==
    (pc = "done" /\ 2 <= threads /\ threads <= height) =>
        /\ \A r \in 0..(height - 1) :
               ~NearSeam(r) => newPixelData[r + 1] = SingleThreadOutput[r + 1]
        /\ IsScenario =>
               \A r \in 0..9 : \A x \in 0..9 :
                   newPixelData[r + 1][x + 1] =
                       IF r \in {2, 7} /\ x \in 2..7 THEN 100 ELSE 0

\* C7 witness: a finished banded run in which a row away from the seams
\* carries filtered pixels and a seam row differs from the single-thread
\* output.
C7_Witness ==
    /\ pc = "done" /\ 2 <= threads /\ threads <= height
    /\ \E r \in 0..(height - 1) :
           ~NearSeam(r) /\ \E x \in 1..width : newPixelData[r + 1][x] > 0
    /\ \E r \in 0..(height - 1) :
           NearSeam(r) /\ newPixelData[r + 1] # SingleThreadOutput[r + 1]

\* C8: in the result of every kernel invocation on a region of at least 5
\* rows and 5 columns, the first two and last two rows and the first two and
\* last two columns are 0.
C8_BorderZero ==
    \A r \in Returned :
        LET h == r[2] - r[1]
        IN  (h >= 5 /\ width >= 5) =>
                \A a \in 1..h : \A b \in 1..width :
                    (a <= 2 \/ a > h - 2 \/ b <= 2 \/ b > width - 2) => r[3][a][b] = 0

\* C8 witness: a kernel result of a region of at least 5x5 over nonzero
\* input, with a nonzero filtered pixel inside the zero border.
C8_Witness ==
    \E r \in Returned :
        /\ r[2] - r[1] >= 5 /\ width >= 5
        /\ \A c \in DOMAIN immutableData : immutableData[c] > 0
        /\ r[3][3][3] > 0

\* The input grid is flat: every sample equals the sample at (0, 0).
Flat == \A c \in DOMAIN immutableData : immutableData[c] = immutableData[<<0, 0>>]

\* C9: on a flat grid of value c and size at least 5x5, every pixel of the
\* full-region kernel result that is not within 2 of a region edge equals c.
C9_FlatInterior ==
    \A r \in Returned :
        (r[1] = 0 /\ r[2] = height /\ height >= 5 /\ width >= 5 /\ Flat) =>
            \A y \in 2..(height - 3) : \A x \in 2..(width - 3) :
                r[3][y + 1][x + 1] = immutableData[<<0, 0>>]

\* C9 witness: the single-thread run has filtered a flat grid of value 255.
C9_Witness ==
    /\ threads = 1 /\ pc = "done" /\ height >= 5 /\ width >= 5
    /\ Flat /\ immutableData[<<0, 0>>] = 255
    /\ newPixelData[3][3] = 255

\* The band of a run with n threads that holds row r, as <<startY, endY>>.
BandOf(r, n) ==
    LET size == height \div n
        i == CHOOSE k \in 0..(n - 1) :
                 /\ k * size <= r
                 /\ r < (IF k = n - 1 THEN height ELSE (k + 1) * size)
    IN  <<i * size, IF i = n - 1 THEN height ELSE (i + 1) * size>>

\* The output as a function of the input alone: row r is the row of r in
\* the kernel result of the band that holds r.
BandedOutput ==
    [a \in 1..height |->
        LET b == BandOf(a - 1, threads)
        IN  medianFilter(b[1], b[2], 0, width, immutableData)[a - b[1]]]

\* C10: for 1 < threads <= height the final output grid is the same in
\* every interleaving of the band tasks: it is the function BandedOutput of
\* the input, whatever order the kernels ran in.
C10_OrderIndependent ==
    (pc = "done" /\ 1 < threads /\ threads <= height) =>
        newPixelData = BandedOutput

\* C10 witness: a finished run in which the kernel of the last band ran
\* first, before the kernel of band 0, and the output has filtered pixels.
C10_Witness ==
    /\ pc = "done" /\ 1 < threads /\ threads <= height
    /\ firstCall = <<band[threads - 1][1], band[threads - 1][2], 0, width>>
    /\ firstCall # <<band[0][1], band[0][2], 0, width>>
    /\ \E a \in 1..height : \E b \in 1..width : newPixelData[a][b] > 0

\* --------------------------------------------------------------- C11..C19
\* Some sample of matrix m is not 0.
HasNonZero(m) == \E a \in 1..Len(m) : \E b \in 1..Len(m[a]) : m[a][b] # 0

\* C11: no band task writes the input grid or the output grid.  The input
\* grid is set once by the load and never changes afterwards; the output
\* grid changes only in a step of the coordinator, which changes no worker;
\* a worker's step changes only that worker's own partial result.
C11_OnlyCoordinatorWritesGrids ==
    [][/\ immutableData' # immutableData => pc = "load"
       /\ newPixelData' # newPixelData =>
              /\ pc \in {"start", "alloc", "merge"}
              /\ wpc' = wpc
              /\ filteredData' = filteredData
       /\ \A i \in Workers :
              filteredData'[i] # filteredData[i] =>
                  /\ wpc[i] = "run"
                  /\ \A j \in Workers \ {i} : filteredData'[j] = filteredData[j]
                  /\ newPixelData' = newPixelData
                  /\ immutableData' = immutableData]_vars

\* C11 witness: a band task has stored a nonzero partial result while the
\* allocated output grid is still untouched.
C11_Witness ==
    /\ pc = "recv" /\ threads > 1
    /\ newPixelData = makeMatrix(height, width)
    /\ \E i \in Workers : wpc[i] = "send" /\ HasNonZero(filteredData[i])

\* C12: with threads == 1 no band task is dispatched and nothing is merged;
\* the output is the result of the one kernel invocation over the full
\* region [0, height) x [0, width).
C12_SingleThreadDirect ==
    threads = 1 =>
        /\ pc \in {"load", "start", "done", "panic"}
        /\ \A i \in Workers : wpc[i] = "none"
        /\ \A r \in 0..(height - 1) : rowWrites[r] = 0
        /\ pc = "done" =>
               /\ kernelCalls = {<<0, height, 0, width>>}
               /\ newPixelData = medianFilter(0, height, 0, width, immutableData)

\* C12 witness: a finished single-thread run with filtered pixels.
C12_Witness == threads = 1 /\ pc = "done" /\ HasNonZero(newPixelData)

\* C13: when a run with 2 <= threads <= height is done, row i of band b's
\* result is output row startY+i for every band, and every output row has
\* been written exactly once.
C13_MergePlacesBands ==
    (pc = "done" /\ 2 <= threads /\ threads <= height) =>
        /\ \A i \in 0..(threads - 1) :
               /\ Len(filteredData[i]) = band[i][2] - band[i][1]
               /\ \A a \in 1..Len(filteredData[i]) :
                      newPixelData[band[i][1] + a] = filteredData[i][a]
        /\ \A r \in 0..(height - 1) : rowWrites[r] = 1

\* C13 witness: a finished banded run whose last band took a remainder and
\* whose output has filtered pixels.
C13_Witness ==
    /\ pc = "done" /\ 2 <= threads /\ threads <= height
    /\ height % threads # 0
    /\ HasNonZero(newPixelData)

\* Every band task of the run has handed over its result and finished.
AllWorkersDone ==
    /\ \A i \in Workers : wpc[i] \in {"none", "done"}
    /\ threads > 1 => \A i \in 0..(threads - 1) : wpc[i] = "done"

\* C14: under fair scheduling every run with threads >= 1 on a loaded grid
\* terminates with all threads results received, and whenever the
\* coordinator is done no band task is running or blocked on its send.
C14_Terminates ==
    /\ [](pc = "done" => AllWorkersDone)
    /\ (pc = "start" /\ threads >= 1) ~> (pc = "done" /\ AllWorkersDone)

\* C14 witness: a finished run in which every one of MaxThreads band tasks
\* has delivered its result.
C14_Witness ==
    /\ pc = "done" /\ threads = MaxThreads
    /\ \A i \in 0..(threads - 1) : wpc[i] = "done"
    /\ Cardinality(kernelCalls) = threads

\* C15 (as claimed): a band task never blocks: whenever its kernel is done
\* and it is at its send, the coordinator is at the receive for that band,
\* so the hand-over happens without waiting.
C15_WorkersNeverBlock ==
    \A i \in Workers : wpc[i] = "send" => (pc = "recv" /\ t = i)

\* C15 (amended): a band task that is at its send stays blocked until the
\* coordinator reaches the receive for its band; the coordinator has then
\* not yet passed that band.  The coordinator blocks only at the receive of
\* band t, and only while band t has not finished its kernel.
C15_BlockingPoints ==
    /\ \A i \in Workers :
           wpc[i] = "send" =>
               /\ pc \in {"spawn", "alloc", "recv", "merge"}
               /\ pc = "recv" => t <= i
               /\ pc = "merge" => t < i
    /\ pc = "recv" =>
           /\ wpc[t] \in {"run", "send"}
           /\ (ENABLED Recv) <=> wpc[t] = "send"
    /\ pc \in {"load", "start", "spawn", "alloc", "merge"} => ENABLED Coordinator

\* C15 witness: band 1 is blocked on its send while the coordinator waits
\* at the receive of band 0, which has not run its kernel yet.
C15_Witness ==
    /\ pc = "recv" /\ t = 0
    /\ wpc[0] = "run" /\ wpc[1] = "send"
    /\ ~ENABLED Recv

\* C16: every region passed to the kernel has 0 <= startY <= endY <= height
\* and the columns [0, width), and every read data(k, l) of the invocation
\* is inside the grid and inside the region's own rows [startY, endY).
C16_ReadsInBounds ==
    \A c \in kernelCalls :
            /\ 0 <= c[1] /\ c[1] <= c[2] /\ c[2] <= height
            /\ c[3] = 0 /\ c[4] = width
            /\ \A rd \in KernelReads(c[1], c[2], c[3], c[4]) :
                   /\ 0 <= rd[1] /\ rd[1] < height
                   /\ 0 <= rd[2] /\ rd[2] < width
                   /\ c[1] <= rd[1] /\ rd[1] < c[2]

\* C16 witness: a band that does not start at row 0 has run its kernel and
\* read the first and the last row of its own region.
C16_Witness ==
    \E c \in kernelCalls :
            /\ threads > 1 /\ c[1] > 0
            /\ <<c[1], 0>> \in KernelReads(c[1], c[2], c[3], c[4])
            /\ <<c[2] - 1, width - 1>> \in KernelReads(c[1], c[2], c[3], c[4])

\* The integer medianFilter selects at pixel (y, x) before narrowing.
Selected(y, x) == SortInts(WindowValues(y, x, immutableData))[midPoint + 1]

\* What C17 asks of one kernel result for region [startY, endY): every
\* filtered pixel is the selected integer, which is in 0..255 and is one of
\* the 25 input samples of the pixel's own window.
NarrowingKept(startY, result) ==
    \A c \in Interior(startY, startY + Len(result)) :
        /\ Selected(c[1], c[2]) \in 0..255
        /\ result[c[1] - startY + 1][c[2] + 1] = Selected(c[1], c[2])
        /\ result[c[1] - startY + 1][c[2] + 1] \in
               {immutableData[w] : w \in WindowCells(c[1], c[2])}

\* C17: the integer selected from the sorted window is in 0..255, so the
\* narrowing to 8 bits keeps it: every step in which medianFilter returns
\* (in a worker, or in the coordinator when threads = 1) returns a result
\* whose every filtered pixel equals one of the 25 samples of its window.
C17_NarrowingKeepsSample ==
    [][/\ \A i \in Workers :
              (wpc[i] = "run" /\ wpc'[i] = "send") =>
                  NarrowingKept(band[i][1], filteredData'[i])
       /\ (pc = "start" /\ pc' = "done") => NarrowingKept(0, newPixelData')]_vars

\* C17 witness: a kernel result holds a filtered pixel of value 128 or more.
C17_Witness ==
    \E r \in Returned : \E c \in Interior(r[1], r[2]) :
        /\ r[3][c[1] - r[1] + 1][c[2] + 1] >= 128
        /\ ~Flat

\* C18 (as claimed): luminance extraction succeeds for every non-empty
\* image, also when its bounds do not start at (0, 0): once getPixelData has
\* run, the grid exists and is height x width.
C18_ExtractionSucceeds ==
    pc # "load" =>
        /\ immutableData # <<>>
        /\ DOMAIN immutableData = (0..(height - 1)) \X (0..(width - 1))

\* What holds instead: extraction succeeds exactly for the images whose
\* bounds start at (0, 0), and then the sample at (y, x) is the gray value.
C18_OriginImagesOnly ==
    pc # "load" =>
        IF img.min = <<0, 0>>
        THEN /\ DOMAIN immutableData = (0..(height - 1)) \X (0..(width - 1))
             /\ \A c \in DOMAIN immutableData :
                    immutableData[c] = Pixel(img.in[1], img.in[2], c[1], c[2])
        ELSE pc = "panic" /\ immutableData = <<>>

\* C19: a kernel result of a region with fewer than 5 rows or fewer than 5
\* columns is all 0; in a finished run with threads > 1 every band of fewer
\* than 5 rows has only zero rows in the output, and when every band has
\* fewer than 5 rows the whole output grid is 0.
C19_SmallRegionsZero ==
    /\ \A r \in Returned :
           (r[2] - r[1] < 5 \/ width < 5) => ~HasNonZero(r[3])
    /\ (pc = "done" /\ threads > 1) =>
           /\ \A i \in 0..(threads - 1) :
                  band[i][2] - band[i][1] < 5 =>
                      \A y \in band[i][1]..(band[i][2] - 1) :
                          \A x \in 1..width : newPixelData[y + 1][x] = 0
           /\ (\A i \in 0..(threads - 1) : band[i][2] - band[i][1] < 5) =>
                  ~HasNonZero(newPixelData)

\* C19 witness: height 10 with 3 threads (bands of 3, 3 and 4 rows) on a
\* grid without a zero sample and at least 5 columns: the output is all 0.
C19_Witness ==
    /\ pc = "done" /\ height = 10 /\ threads = 3 /\ width >= 5
    /\ \A c \in DOMAIN immutableData : immutableData[c] > 0
    /\ \A i \in 0..2 : Len(filteredData[i]) \in {3, 4}
    /\ ~HasNonZero(newPixelData)

====
